---- MODULE Spec2Model ----
(***************************************************************************)
(* docker-network-ovn: the Docker network driver (main.go) over the OVN    *)
(* Northbound API (ovn.go) and the OVS API (ovs.go).                       *)
(*                                                                         *)
(* State: the two databases (Logical_Switch and Logical_Switch_Port rows   *)
(* of OVN NB; the bridge's port set, Port and Interface rows of OVS), the  *)
(* host's veth links, and the driver calls in flight.  A driver call is a  *)
(* sequence of steps, one per database lookup group, transaction or host   *)
(* command, in the order of the handler's code.  The plugin handler serves *)
(* each request on a goroutine of its own and the driver holds no lock, so *)
(* the steps of two calls may interleave (SpecConc); Spec runs one call at *)
(* a time, with up to MaxFaults failures of the environment; SpecDup runs  *)
(* one call at a time for two network ids with the same 12-character      *)
(* prefix, SpecPrefix for two endpoint ids with the same 12-character      *)
(* prefix, and SpecRace interleaves the calls of two endpoints on one       *)
(* network.                                                                *)
(*                                                                         *)
(* The databases execute exactly the operations of a batch, all or none:   *)
(* insert and delete mutations with the operators' protocol meaning        *)
(* (insert adds only keys that are not present, delete with a map value    *)
(* removes only the pairs equal in key and value), conditions by _uuid.    *)
(* Every lookup, operation build, transaction and host command may fail.   *)
(* A lookup by name that matches several rows yields list[0] of an         *)
(* unordered cache: any of them.                                           *)
(*                                                                         *)
(* Strings: an identifier is the sequence of its characters, an IP or      *)
(* gateway string is <<addr>> or <<addr, "/", bits>>, a MAC is the         *)
(* sequence of its six bytes, "" is <<>>.                                  *)
(***************************************************************************)
EXTENDS Integers, Sequences, FiniteSets, TLC

\* ------------------------------------------------------------------ bounds
\* Rows of each table that may exist at once (row identities are reused only
\* when nothing in the state mentions them any more).
MaxSwitches == 2
MaxLsps == 2
MaxOvsPorts == 2
\* Failures of lookups, transactions and host commands in one behaviour.
MaxFaults == 2

\* ------------------------------------------------------- program constants
\* r.NetworkID[:12], r.EndpointID[:12]
NamePrefixLen == 12
\* r.EndpointID[:7]
VethPrefixLen == 7
\* generateMAC: i < 5
MacIdBytes == 5

Rep(c, n) == [i \in 1..n |-> c]

\* -------------------------------------------------------------- identifiers
NetA == Rep("a", 12) \o <<"1">>
NetB == Rep("b", 12) \o <<"1">>
\* a network id with NetA's first twelve characters
NetA2 == Rep("a", 12) \o <<"2">>
EpA == Rep("c", 12) \o <<"1">>
EpB == Rep("d", 12) \o <<"1">>
\* an endpoint id with EpA's first twelve characters
EpA2 == Rep("c", 12) \o <<"2">>

AllEps == {EpA, EpB, EpA2}

Empty == <<>>
SubnetX == <<"10.1.0.0", "/", "16">>
SubnetY == <<"10.2.0.0", "/", "16">>
GwCidr == <<"10.1.0.1", "/", "16">>
GwBare == <<"10.1.0.1">>
GwBad == <<"10.1.0.1", "/", "99">>
IpX == <<"10.1.0.5">>
IpXCidr == <<"10.1.0.5", "/", "16">>
IpY == <<"10.1.0.6">>
GivenMac == <<"02", "42", "0a", "01", "00", "05">>

Threads == {1, 2}

SwitchIds == 1..MaxSwitches
LspIds == 1..MaxLsps
OvsIds == 1..MaxOvsPorts

NoRow == [none |-> TRUE]

VARIABLES
  \* OVN NB Logical_Switch rows, by _uuid
  switches,
  \* OVN NB Logical_Switch_Port rows, by _uuid
  lsps,
  \* OVS Bridge.ports of the configured bridge
  bridgePorts,
  \* OVS Port rows and Interface rows, by _uuid
  ovsPorts,
  ovsIfaces,
  \* the host-side names of the veth pairs that exist
  links,
  \* the driver call each request goroutine runs
  calls,
  \* the failures of the environment so far
  faults

vars == <<switches, lsps, bridgePorts, ovsPorts, ovsIfaces, links, calls, faults>>
nbVars == <<switches, lsps>>
ovsVars == <<bridgePorts, ovsPorts, ovsIfaces>>
hostVars == <<ovsVars, links>>

\* ----------------------------------------------------------------- naming
Prefix(id, n) == SubSeq(id, 1, n)

\* fmt.Sprintf("ls-%s", r.NetworkID[:12])
SwitchName(net) == <<"ls">> \o Prefix(net, NamePrefixLen)

\* a port name made of the whole endpoint id
PortNameOfId(ep, net) == <<"lsp">> \o ep \o <<"ls">> \o Prefix(net, NamePrefixLen)

\* fmt.Sprintf("lsp-%s-ls-%s", r.EndpointID[:12], r.NetworkID[:12])
PortName(ep, net) == <<"lsp">> \o Prefix(ep, NamePrefixLen) \o SwitchName(net)

\* fmt.Sprintf("veth%s", r.EndpointID[:7])
LocalVethName(ep) == <<"veth">> \o Prefix(ep, VethPrefixLen)

ContainerVethName(ep) == LocalVethName(ep) \o <<"_c">>

Min(a, b) == IF a < b THEN a ELSE b

\* fmt.Sprintf("%02x", b) of the byte of an identifier's character
HexByte(c) ==
  CASE c = "a" -> "61" [] c = "b" -> "62" [] c = "c" -> "63" [] c = "d" -> "64"
    [] c = "1" -> "31" [] c = "2" -> "32"

\* generateMAC: 02 followed by the first five bytes of the endpoint id, in hex
generateMAC(ep) ==
  <<"02">> \o [i \in 1..Min(MacIdBytes, Len(ep)) |-> HexByte(ep[i])]
           \o Rep("00", MacIdBytes - Min(MacIdBytes, Len(ep)))

\* strings.Contains(s, "/")
HasSlash(s) == \E i \in DOMAIN s : s[i] = "/"

\* net.ParseCIDR: the address part, or an error
CidrOk(s) == Len(s) = 3 /\ s[2] = "/" /\ s[3] \in {"8", "16", "24"}

CidrIP(s) == <<s[1]>>

\* the gateway stored by CreateNetwork and the IP stored by CreateEndpoint
CleanAddr(s) == IF HasSlash(s) THEN CidrIP(s) ELSE s

\* ------------------------------------------------------------ the NB cache
\* other_config of a switch: the network's own entries and, per endpoint id,
\* the docker:endpoint:<id>:mac and docker:endpoint:<id>:ip entries (<<>> when
\* the key is absent: a Go map read of a missing key is "").
NoMeta == [e \in AllEps |-> Empty]

\* a lookup whose predicate accepts every row
SwitchesAny(name) == {u \in SwitchIds : switches[u] # NoRow}

\* findLogicalSwitch
SwitchesNamed(name) == {u \in SwitchIds : switches[u] # NoRow /\ switches[u].name = name}

\* a lookup that compares the wrong other_config key
SwitchesWithGateway(subnet) ==
  {u \in SwitchIds : switches[u] # NoRow /\ switches[u].gateway = subnet}

\* findLogicalSwitchBySubnet
SwitchesWithSubnet(subnet) ==
  {u \in SwitchIds : switches[u] # NoRow /\ switches[u].subnet = subnet}

\* a lookup that finds no row
LspsNone(name) == {}

\* findLogicalSwitchPort
LspsNamed(name) == {p \in LspIds : lsps[p] # NoRow /\ lsps[p].name = name}

\* logicalSwitchPortAddressHasIP
logicalSwitchPortAddressHasIP(address, ipAddr) ==
  \/ address = ipAddr
  \/ \E i \in DOMAIN address : address[i] = ipAddr

\* findLogicalSwitchPortByIP, for the switch row u the name lookup returned
LspsByIP(u, ipAddr) ==
  {p \in LspIds : /\ lsps[p] # NoRow
                  /\ p \in switches[u].ports
                  /\ \E i \in DOMAIN lsps[p].addresses :
                       logicalSwitchPortAddressHasIP(lsps[p].addresses[i], ipAddr)}

\* row identities that nothing in the state mentions
UsedSwitchIds ==
  {u \in SwitchIds : switches[u] # NoRow} \cup {calls[t].ls : t \in Threads}

UsedLspIds ==
  {p \in LspIds : lsps[p] # NoRow}
    \cup UNION {switches[u].ports : u \in {v \in SwitchIds : switches[v] # NoRow}}
    \cup {calls[t].lsp : t \in {r \in Threads : calls[r].pc # "done"}}

UsedOvsPortIds ==
  {q \in OvsIds : ovsPorts[q] # NoRow} \cup bridgePorts
    \cup {calls[t].port : t \in {r \in Threads : calls[r].pc # "done"}}

UsedIfaceIds ==
  {i \in OvsIds : ovsIfaces[i] # NoRow}
    \cup UNION {ovsPorts[q].interfaces : q \in {r \in OvsIds : ovsPorts[r] # NoRow}}

FreeSwitchIds == SwitchIds \ UsedSwitchIds
FreeLspIds == LspIds \ UsedLspIds
FreeOvsPortIds == OvsIds \ UsedOvsPortIds
FreeIfaceIds == OvsIds \ UsedIfaceIds

\* RemovePort's lookups by name
OvsPortsNamed(name) == {q \in OvsIds : ovsPorts[q] # NoRow /\ ovsPorts[q].name = name}

OvsIfacesNamed(name) == {i \in OvsIds : ovsIfaces[i] # NoRow /\ ovsIfaces[i].name = name}

SetMin(S) == CHOOSE x \in S : \A y \in S : x <= y

\* The identity of a new row: any identity not in use serves (the program only
\* compares identities); the one chosen is fixed by the request, so that states
\* differing only in the names of the identities are not told apart.
NetSlot(net, subnet) == IF net = NetA /\ subnet = SubnetX THEN 1 ELSE 2

EpSlot(ep) == IF ep = EpA THEN 1 ELSE 2

Fresh(free, wanted) == IF wanted \in free THEN wanted ELSE SetMin(free)

\* ------------------------------------------------------------------ calls
Idle ==
  [op |-> "none", pc |-> "idle", net |-> Empty, ep |-> Empty,
   subnet |-> Empty, gateway |-> Empty, mac |-> Empty, ip |-> Empty,
   ls |-> 0, lsp |-> 0, port |-> 0, err |-> "", warn |-> {}, tried |-> <<>>,
   resp |-> Empty]

Free(t) == calls[t].pc \in {"idle", "done"}

At(t, op, pc) == calls[t].op = op /\ calls[t].pc = pc

\* the call ends: its result stays until the goroutine serves its next request
\* (with the rows Leave found, which are no handles any more)
Finish(c, e) ==
  [c EXCEPT !.pc = "done", !.err = e, !.ls = 0,
            !.mac = Empty, !.ip = Empty, !.gateway = Empty]

Fail(t, e) == calls' = [calls EXCEPT ![t] = Finish(calls[t], e)]

\* the call has come to submit a batch, or to one of Leave's three parts
Tried(c, s) == [c EXCEPT !.tried = Append(@, s)]

Goto(t, pc) == calls' = [calls EXCEPT ![t].pc = pc]

\* The outcomes of a lookup, transaction or host command that may fail, after n
\* failures in the same step, and the step's count of failures.
Chance(n) == IF faults + n < MaxFaults THEN BOOLEAN ELSE {TRUE}

Bad(ok) == IF ok THEN 0 ELSE 1

Charge(n) == faults' = faults + n

\* ---------------------------------------------------------- CreateNetwork
BeginCreateNetwork(t, net, subnet, gateway) ==
  /\ Free(t)
  /\ calls' = [calls EXCEPT ![t] =
       [Idle EXCEPT !.op = "CreateNetwork", !.pc = "cn_check", !.net = net,
                    !.subnet = subnet, !.gateway = gateway]]
  /\ UNCHANGED <<nbVars, hostVars, faults>>

\* main.go 75-92: the subnet checks and the gateway clean-up
CreateNetworkCheck(t) ==
  /\ At(t, "CreateNetwork", "cn_check")
  /\ LET c == calls[t] IN
     \E lookupOk \in Chance(0) :
       /\ c.subnet = Empty => lookupOk
       /\ Charge(Bad(lookupOk))
       /\ IF c.subnet = Empty THEN Fail(t, "subnet not specified")
          ELSE IF ~lookupOk THEN Fail(t, "lookup failed")
          ELSE IF SwitchesWithSubnet(c.subnet) # {} THEN Fail(t, "subnet in use")
          ELSE IF c.gateway # Empty /\ HasSlash(c.gateway) /\ ~CidrOk(c.gateway)
            THEN Fail(t, "invalid gateway")
          ELSE calls' = [calls EXCEPT ![t].pc = "cn_create",
                                      ![t].gateway = CleanAddr(c.gateway)]
  /\ UNCHANGED <<nbVars, hostVars>>

\* the row CreateLogicalSwitch creates
NewSwitch(net, subnet, gateway) ==
  [name |-> SwitchName(net), ports |-> {}, network |-> net, subnet |-> subnet,
   gateway |-> gateway, epMac |-> NoMeta, epIp |-> NoMeta]

\* main.go 94-107, ovn.go CreateLogicalSwitch (a table at its bound refuses the
\* insert)
CreateNetworkCreate(t) ==
  /\ At(t, "CreateNetwork", "cn_create")
  /\ LET c == calls[t] IN
     \E txOk \in BOOLEAN :
       /\ txOk \in Chance(0) \/ FreeSwitchIds = {}
       /\ FreeSwitchIds = {} => ~txOk
       /\ Charge(IF FreeSwitchIds = {} THEN 0 ELSE Bad(txOk))
       /\ IF txOk
          THEN /\ switches' =
                    [switches EXCEPT ![Fresh(FreeSwitchIds, NetSlot(c.net, c.subnet))] =
                       NewSwitch(c.net, c.subnet, c.gateway)]
               /\ Fail(t, "")
          ELSE /\ Fail(t, "transaction failed")
               /\ UNCHANGED switches
  /\ UNCHANGED <<lsps, hostVars>>

\* ---------------------------------------------------------- DeleteNetwork
BeginDeleteNetwork(t, net) ==
  /\ Free(t)
  /\ calls' = [calls EXCEPT ![t] =
       [Idle EXCEPT !.op = "DeleteNetwork", !.pc = "dn_find", !.net = net]]
  /\ UNCHANGED <<nbVars, hostVars, faults>>

\* ovn.go DeleteLogicalSwitch 239-246
DeleteNetworkFind(t) ==
  /\ At(t, "DeleteNetwork", "dn_find")
  /\ LET found == SwitchesNamed(SwitchName(calls[t].net)) IN
     \E lookupOk \in Chance(0) :
       /\ Charge(Bad(lookupOk))
       /\ IF ~lookupOk THEN Fail(t, "lookup failed")
          ELSE IF found = {} THEN Fail(t, "")
          ELSE \E u \in found :
                 calls' = [calls EXCEPT ![t].pc = "dn_delete", ![t].ls = u]
  /\ UNCHANGED <<nbVars, hostVars>>

\* ovn.go DeleteLogicalSwitch 248-263
DeleteNetworkDelete(t) ==
  /\ At(t, "DeleteNetwork", "dn_delete")
  /\ LET c == Tried(calls[t], "delete") IN
     \E txOk \in Chance(0) :
       /\ Charge(Bad(txOk))
       /\ IF txOk
          THEN /\ switches' = [switches EXCEPT ![c.ls] = NoRow]
               /\ calls' = [calls EXCEPT ![t] = Finish(c, "")]
          ELSE /\ calls' = [calls EXCEPT ![t] = Finish(c, "transaction failed")]
               /\ UNCHANGED switches
  /\ UNCHANGED <<lsps, hostVars>>

\* --------------------------------------------------------- CreateEndpoint
BeginCreateEndpoint(t, ep, net, mac, ip) ==
  /\ Free(t)
  /\ calls' = [calls EXCEPT ![t] =
       [Idle EXCEPT !.op = "CreateEndpoint", !.pc = "ce_check", !.net = net,
                    !.ep = ep, !.mac = mac, !.ip = ip]]
  /\ UNCHANGED <<nbVars, hostVars, faults>>

\* main.go 123-140: the network must exist; MAC and IP are settled
CreateEndpointCheck(t) ==
  /\ At(t, "CreateEndpoint", "ce_check")
  /\ LET c == calls[t] IN
     \E lookupOk \in Chance(0) :
       /\ Charge(Bad(lookupOk))
       /\ IF ~lookupOk \/ SwitchesNamed(SwitchName(c.net)) = {}
            THEN Fail(t, "network not found")
          ELSE IF HasSlash(c.ip) /\ ~CidrOk(c.ip) THEN Fail(t, "invalid IP address")
          ELSE calls' = [calls EXCEPT
                 ![t].pc = "ce_lookup",
                 ![t].mac = IF c.mac = Empty THEN generateMAC(c.ep) ELSE c.mac,
                 ![t].ip = CleanAddr(c.ip)]
  /\ UNCHANGED <<nbVars, hostVars>>

\* storeEndpointMetadata 307-313
CreateEndpointLookup(t) ==
  /\ At(t, "CreateEndpoint", "ce_lookup")
  /\ LET found == SwitchesNamed(SwitchName(calls[t].net)) IN
     \E lookupOk \in Chance(0) :
       /\ Charge(Bad(lookupOk))
       /\ IF ~lookupOk THEN Fail(t, "lookup failed")
          ELSE IF found = {} THEN Fail(t, "logical switch not found")
          ELSE \E u \in found :
                 calls' = [calls EXCEPT ![t].pc = "ce_store", ![t].ls = u]
  /\ UNCHANGED <<nbVars, hostVars>>

\* a write under keys made of the first twelve characters of the endpoint id
InsertKeysOfPrefix(row, ep, mac, ip) ==
  [row EXCEPT
     !.epMac = [e \in AllEps |->
                  IF Prefix(e, NamePrefixLen) = Prefix(ep, NamePrefixLen) /\ @[e] = Empty
                  THEN mac ELSE @[e]],
     !.epIp = [e \in AllEps |->
                 IF Prefix(e, NamePrefixLen) = Prefix(ep, NamePrefixLen) /\ @[e] = Empty
                 THEN ip ELSE @[e]]]

\* a write of the keys that resets the port set
InsertEndpointKeysOnly(row, ep, mac, ip) ==
  [row EXCEPT !.epMac[ep] = IF @ = Empty THEN mac ELSE @,
              !.epIp[ep] = IF @ = Empty THEN ip ELSE @,
              !.ports = {}]

\* mutate other_config insert {macKey: mac, ipKey: ip}: a key that is present
\* keeps its value
InsertEndpointKeys(row, ep, mac, ip) ==
  [row EXCEPT !.epMac[ep] = IF @ = Empty THEN mac ELSE @,
              !.epIp[ep] = IF @ = Empty THEN ip ELSE @]

\* mutate other_config delete {macKey: mac, ipKey: ip}: a map value deletes the
\* pairs equal in key and value
DeleteEndpointKeys(row, ep, mac, ip) ==
  [row EXCEPT !.epMac[ep] = IF @ = mac THEN Empty ELSE @,
              !.epIp[ep] = IF @ = ip THEN Empty ELSE @]

\* a mutation of the rows where _uuid = u, changed being the row after it:
\* none when the row is gone
MutateSwitch(u, changed) ==
  [v \in SwitchIds |-> IF v = u /\ switches[v] # NoRow THEN changed ELSE switches[v]]

\* storeEndpointMetadata 315-333
CreateEndpointStore(t) ==
  /\ At(t, "CreateEndpoint", "ce_store")
  /\ LET c == calls[t]
         put == InsertEndpointKeys(switches[c.ls], c.ep, c.mac, c.ip) IN
     \E txOk \in Chance(0) :
       /\ Charge(Bad(txOk))
       /\ IF txOk
          THEN /\ switches' = MutateSwitch(c.ls, put)
               /\ calls' = [calls EXCEPT ![t] = [Finish(c, "") EXCEPT !.resp = c.mac]]
          ELSE /\ Fail(t, "transaction failed")
               /\ UNCHANGED switches
  /\ UNCHANGED <<lsps, hostVars>>

\* --------------------------------------------------------- DeleteEndpoint
BeginDeleteEndpoint(t, ep, net) ==
  /\ Free(t)
  /\ calls' = [calls EXCEPT ![t] =
       [Idle EXCEPT !.op = "DeleteEndpoint", !.pc = "de_lookup", !.net = net,
                    !.ep = ep]]
  /\ UNCHANGED <<nbVars, hostVars, faults>>

\* deleteEndpointMetadata 337-344
DeleteEndpointLookup(t) ==
  /\ At(t, "DeleteEndpoint", "de_lookup")
  /\ LET found == SwitchesNamed(SwitchName(calls[t].net)) IN
     \E lookupOk \in Chance(0) :
       /\ Charge(Bad(lookupOk))
       /\ IF ~lookupOk THEN Fail(t, "lookup failed")
          ELSE IF found = {} THEN Fail(t, "")
          ELSE \E u \in found :
                 calls' = [calls EXCEPT ![t].pc = "de_delete", ![t].ls = u]
  /\ UNCHANGED <<nbVars, hostVars>>

\* deleteEndpointMetadata 346-366: a failure to build or to run the batch is
\* logged only
DeleteEndpointDelete(t) ==
  /\ At(t, "DeleteEndpoint", "de_delete")
  /\ LET c == calls[t]
         drop == DeleteEndpointKeys(switches[c.ls], c.ep, Empty, Empty) IN
     \E txOk \in Chance(0) :
       /\ Charge(Bad(txOk))
       /\ IF txOk
          THEN /\ switches' = MutateSwitch(c.ls, drop)
               /\ Fail(t, "")
          ELSE /\ calls' = [calls EXCEPT ![t] =
                             [Finish(c, "") EXCEPT !.warn = {"metadata"}]]
               /\ UNCHANGED switches
  /\ UNCHANGED <<lsps, hostVars>>

\* ------------------------------------------------------------------- Join
BeginJoin(t, ep, net) ==
  /\ Free(t)
  /\ calls' = [calls EXCEPT ![t] =
       [Idle EXCEPT !.op = "Join", !.pc = "j_meta", !.net = net, !.ep = ep]]
  /\ UNCHANGED <<nbVars, hostVars, faults>>

\* a read that takes every endpoint to have metadata
MetadataAssumed(row, ep) == FALSE

\* getEndpointMetadata 383: macAddr == "" || ipAddr == ""
MetadataMissing(row, ep) == row.epMac[ep] = Empty \/ row.epIp[ep] = Empty

\* getEndpointMetadata 369-387 (main.go 169-172)
JoinMetadata(t) ==
  /\ At(t, "Join", "j_meta")
  /\ LET c == calls[t]
         found == SwitchesNamed(SwitchName(c.net)) IN
     \E lookupOk \in Chance(0) :
       /\ Charge(Bad(lookupOk))
       /\ IF ~lookupOk THEN Fail(t, "lookup failed")
          ELSE IF found = {} THEN Fail(t, "logical switch not found")
          ELSE \E u \in found :
                 IF MetadataMissing(switches[u], c.ep)
                 THEN Fail(t, "endpoint metadata not found")
                 ELSE calls' = [calls EXCEPT ![t].pc = "j_check",
                                             ![t].mac = switches[u].epMac[c.ep],
                                             ![t].ip = switches[u].epIp[c.ep],
                                             ![t].gateway = switches[u].gateway]
  /\ UNCHANGED <<nbVars, hostVars>>

\* GetLogicalSwitchPortByIP: a port of the switch found by name carries the IP
\* (no switch: not found)
IPInUse(found, ipAddr) == \E u \in found : LspsByIP(u, ipAddr) # {}

\* main.go 180-198: the IP, switch and port-name checks
JoinCheck(t) ==
  /\ At(t, "Join", "j_check")
  /\ LET c == calls[t]
         found == SwitchesNamed(SwitchName(c.net)) IN
     \E lookupOk \in Chance(0) :
       /\ Charge(Bad(lookupOk))
       /\ IF ~lookupOk THEN Fail(t, "lookup failed")
          ELSE \E byIP \in SUBSET found :
            /\ Cardinality(byIP) = (IF found = {} THEN 0 ELSE 1)
            /\ IF IPInUse(byIP, c.ip) THEN Fail(t, "IP address in use")
               ELSE IF found = {} THEN Fail(t, "logical switch not found")
               ELSE IF LspsNamed(PortName(c.ep, c.net)) # {}
                 THEN Fail(t, "logical switch port already exists")
               ELSE \E u \in found :
                      calls' = [calls EXCEPT ![t].pc = "j_transact", ![t].ls = u]
  /\ UNCHANGED <<nbVars, hostVars>>

\* a port row without port security
LspWithoutSecurity(ep, net, mac, ip) ==
  [name |-> PortName(ep, net), addresses |-> << <<mac, ip>> >>,
   portSecurity |-> <<>>, enabled |-> TRUE, endpoint |-> ep, network |-> net]

\* main.go 200-208: the row Join creates
NewLsp(ep, net, mac, ip) ==
  [name |-> PortName(ep, net), addresses |-> << <<mac, ip>> >>,
   portSecurity |-> << <<mac, ip>> >>, enabled |-> TRUE,
   endpoint |-> ep, network |-> net]

\* a batch without the mutate operation
KeepPorts(row, p) == row

\* a write of the port set made of the new reference alone
SetPortRef(row, p) == [row EXCEPT !.ports = {p}]

\* mutate ports insert / delete of one port reference
InsertPortRef(row, p) == [row EXCEPT !.ports = @ \cup {p}]

DeletePortRef(row, p) == [row EXCEPT !.ports = @ \ {p}]

\* a batch without the delete operation
KeepLsp(p) == lsps

\* DeleteLogicalSwitchPortOp, committed
DeleteLsp(p) == [lsps EXCEPT ![p] = NoRow]

\* a check of the call's error only
CallSucceeded(txOk, resOk) == txOk

\* main.go 224-233: Transact returned no error and no result carries one
Committed(txOk, resOk) == txOk /\ resOk

\* main.go 210-234: create the port and insert it into the switch, one batch
\* (txOk: Transact returns no error; resOk: no result carries an error; the
\* database commits the batch when both hold)
JoinTransact(t) ==
  /\ At(t, "Join", "j_transact")
  /\ LET c == calls[t]
         full == FreeLspIds = {} IN
     \E txOk \in BOOLEAN, resOk \in BOOLEAN :
       /\ (txOk /\ resOk) \in Chance(0) \/ full
       /\ full => ~(txOk /\ resOk)
       /\ Charge(IF full THEN 0 ELSE Bad(txOk /\ resOk))
       /\ IF Committed(txOk, resOk)
          THEN LET p == Fresh(FreeLspIds, EpSlot(c.ep))
                   add == InsertPortRef(switches[c.ls], p) IN
               /\ lsps' = IF txOk /\ resOk
                          THEN [lsps EXCEPT ![p] = NewLsp(c.ep, c.net, c.mac, c.ip)]
                          ELSE lsps
               /\ switches' = IF txOk /\ resOk THEN MutateSwitch(c.ls, add) ELSE switches
               /\ calls' = [calls EXCEPT ![t].pc = "j_linkadd", ![t].ls = 0]
          ELSE /\ Fail(t, IF txOk THEN "transaction error" ELSE "transaction failed")
               /\ UNCHANGED nbVars
  /\ UNCHANGED hostVars

\* a failure path without the ip link del
LinkLeft(name, delOk) == links

\* exec ip link del <name>, its result ignored: the link is gone, or stays
\* when the command fails
LinkDeleted(name, delOk) == IF delOk THEN links \ {name} ELSE links

\* the error return after the rollback; warn keeps the failures a call did not
\* return (logged, or dropped as the rollback's is)
FailRolledBack(t, e, delOk) ==
  calls' = [calls EXCEPT ![t] =
    [Finish(calls[t], e) EXCEPT !.warn = IF delOk THEN {} ELSE {"rollback"}]]

\* main.go 238-246: ip link add
JoinLinkAdd(t) ==
  /\ At(t, "Join", "j_linkadd")
  /\ LET name == LocalVethName(calls[t].ep) IN
     \E cmdOk \in BOOLEAN :
       /\ cmdOk \in Chance(0) \/ name \in links
       /\ name \in links => ~cmdOk
       /\ Charge(IF name \in links THEN 0 ELSE Bad(cmdOk))
       /\ IF cmdOk
          THEN /\ links' = links \cup {name}
               /\ Goto(t, "j_setmac")
          ELSE /\ Fail(t, "failed to create veth pair")
               /\ UNCHANGED links
  /\ UNCHANGED <<nbVars, ovsVars>>

\* a command on a link, and the rollback's ip link del when it fails: the
\* command fails on a link that is gone, and only a link that is there can be
\* left by a failed deletion
HostStep(name, cmdOk, delOk) ==
  /\ name \notin links => ~cmdOk /\ delOk
  /\ cmdOk => delOk
  /\ Charge(IF name \in links THEN Bad(cmdOk) + Bad(delOk) ELSE 0)

\* main.go 248-252: ip link set <container side> address <mac>
JoinSetMac(t) ==
  /\ At(t, "Join", "j_setmac")
  /\ LET name == LocalVethName(calls[t].ep) IN
     \E cmdOk \in BOOLEAN, delOk \in BOOLEAN :
       /\ cmdOk \in Chance(0) \/ name \notin links
       /\ delOk \in Chance(Bad(cmdOk))
       /\ HostStep(name, cmdOk, delOk)
       /\ IF cmdOk
          THEN /\ UNCHANGED links
               /\ Goto(t, "j_up")
          ELSE /\ links' = LinkDeleted(name, delOk)
               /\ FailRolledBack(t, "failed to set MAC address", delOk)
  /\ UNCHANGED <<nbVars, ovsVars>>

\* main.go 254-258: ip link set <host side> up
JoinLinkUp(t) ==
  /\ At(t, "Join", "j_up")
  /\ LET name == LocalVethName(calls[t].ep) IN
     \E cmdOk \in BOOLEAN, delOk \in BOOLEAN :
       /\ cmdOk \in Chance(0) \/ name \notin links
       /\ delOk \in Chance(Bad(cmdOk))
       /\ HostStep(name, cmdOk, delOk)
       /\ IF cmdOk
          THEN /\ UNCHANGED links
               /\ Goto(t, "j_attach")
          ELSE /\ links' = LinkDeleted(name, delOk)
               /\ FailRolledBack(t, "failed to bring up host veth", delOk)
  /\ UNCHANGED <<nbVars, ovsVars>>

\* main.go 260-264, ovs.go AddPortToBridge: interface, port and bridge
\* reference in one batch
JoinAttach(t) ==
  /\ At(t, "Join", "j_attach")
  /\ LET c == calls[t]
         name == LocalVethName(c.ep)
         full == FreeOvsPortIds = {} \/ FreeIfaceIds = {} IN
     \E txOk \in BOOLEAN, delOk \in BOOLEAN :
       /\ txOk \in Chance(0) \/ full
       /\ full => ~txOk
       /\ delOk \in Chance(IF full THEN 0 ELSE Bad(txOk))
       /\ txOk \/ name \notin links => delOk
       /\ Charge((IF full THEN 0 ELSE Bad(txOk)) + Bad(delOk))
       /\ IF txOk
          THEN LET q == Fresh(FreeOvsPortIds, EpSlot(c.ep))
                   i == Fresh(FreeIfaceIds, EpSlot(c.ep)) IN
               /\ ovsIfaces' = [ovsIfaces EXCEPT ![i] =
                    [name |-> name, ifaceId |-> PortName(c.ep, c.net)]]
               /\ ovsPorts' = [ovsPorts EXCEPT ![q] =
                    [name |-> name, interfaces |-> {i}]]
               /\ bridgePorts' = bridgePorts \cup {q}
               /\ Goto(t, "j_offload")
               /\ UNCHANGED links
          ELSE /\ links' = LinkDeleted(name, delOk)
               /\ FailRolledBack(t, "failed to add veth to OVS", delOk)
               /\ UNCHANGED ovsVars
  /\ UNCHANGED nbVars

\* main.go 266-276: the two ethtool commands, their results ignored, and the
\* response
JoinOffload(t) ==
  /\ At(t, "Join", "j_offload")
  /\ LET c == calls[t] IN
     \E cmdsOk \in Chance(0) :
       /\ Charge(Bad(cmdsOk))
       /\ calls' = [calls EXCEPT ![t] =
            [Finish(c, "") EXCEPT
               !.warn = IF cmdsOk THEN {} ELSE {"offload"},
               !.resp = <<ContainerVethName(c.ep), c.gateway>>]]
  /\ UNCHANGED <<nbVars, hostVars>>

\* ------------------------------------------------------------------ Leave
BeginLeave(t, ep, net) ==
  /\ Free(t)
  /\ calls' = [calls EXCEPT ![t] =
       [Idle EXCEPT !.op = "Leave", !.pc = "l_find", !.net = net, !.ep = ep]]
  /\ UNCHANGED <<nbVars, hostVars, faults>>

\* the failure returned instead of logged
Returned(c, w, pc) == Finish(c, w)

\* a failure that is logged (log.Printf("Warning: ...")) or dropped: the call
\* goes on with its next step
Logged(c, w, pc) == [c EXCEPT !.warn = @ \cup {w}, !.pc = pc]

\* deleteLogicalSwitchPort 390-406: the port by name, then the switch by name
\* (a switch that is not found, or whose lookup fails, is left out of the batch)
LeaveFind(t) ==
  /\ At(t, "Leave", "l_find")
  /\ LET c == Tried(calls[t], "lsp")
         ports == LspsNamed(PortName(c.ep, c.net))
         found == SwitchesNamed(SwitchName(c.net)) IN
     \E lookupOk \in Chance(0) :
       \E lsLookupOk \in Chance(Bad(lookupOk)) :
         /\ (~lookupOk \/ ports = {}) => lsLookupOk
         /\ Charge(Bad(lookupOk) + Bad(lsLookupOk))
         /\ IF ~lookupOk
            THEN calls' = [calls EXCEPT ![t] = Logged(c, "lsp", "rp_find")]
            ELSE IF ports = {}
            THEN calls' = [calls EXCEPT ![t] = [c EXCEPT !.pc = "rp_find"]]
            ELSE \E p \in ports :
                   \E u \in (IF lsLookupOk /\ found # {} THEN found ELSE {0}) :
                     calls' = [calls EXCEPT ![t] =
                       IF lsLookupOk
                       THEN [c EXCEPT !.pc = "l_delete", !.lsp = p, !.ls = u]
                       ELSE Logged([c EXCEPT !.lsp = p, !.ls = u], "ref", "l_delete")]
  /\ UNCHANGED <<nbVars, hostVars>>

\* deleteLogicalSwitchPort 400-425: remove the reference (when the mutate
\* operation was built) and delete the port, one batch
LeaveDelete(t) ==
  /\ At(t, "Leave", "l_delete")
  /\ LET c == calls[t]
         drop == DeletePortRef(switches[c.ls], c.lsp)
         next == [c EXCEPT !.ls = 0] IN
     \E txOk \in Chance(0) :
       \E mutateOk \in Chance(Bad(txOk)) :
         /\ (~txOk \/ c.ls = 0) => mutateOk
         /\ Charge(Bad(txOk) + Bad(mutateOk))
         /\ IF txOk
            THEN /\ lsps' = DeleteLsp(c.lsp)
                 /\ switches' = IF mutateOk THEN MutateSwitch(c.ls, drop) ELSE switches
                 /\ calls' = [calls EXCEPT ![t] =
                      IF mutateOk THEN [next EXCEPT !.pc = "rp_find"]
                      ELSE Logged(next, "ref", "rp_find")]
            ELSE /\ calls' = [calls EXCEPT ![t] = Logged(next, "lsp", "rp_find")]
                 /\ UNCHANGED nbVars
  /\ UNCHANGED hostVars

\* ovs.go RemovePort 471-488: the port by name, then the bridge
LeaveRemovePortFind(t) ==
  /\ At(t, "Leave", "rp_find")
  /\ LET c == Tried(calls[t], "bridge")
         ports == OvsPortsNamed(LocalVethName(c.ep)) IN
     \E lookupOk \in Chance(0) :
       /\ Charge(Bad(lookupOk))
       /\ IF ~lookupOk
          THEN calls' = [calls EXCEPT ![t] = Logged(c, "bridge", "l_linkdel")]
          ELSE IF ports = {}
          THEN calls' = [calls EXCEPT ![t] = [c EXCEPT !.pc = "l_linkdel"]]
          ELSE \E q \in ports :
                 calls' = [calls EXCEPT ![t] =
                             [c EXCEPT !.pc = "rp_unlink", !.port = q]]
  /\ UNCHANGED <<nbVars, hostVars>>

\* RemovePort 492-507: mutate Bridge.ports delete; a failure is logged only
LeaveRemovePortUnlink(t) ==
  /\ At(t, "Leave", "rp_unlink")
  /\ \E txOk \in Chance(0) :
       /\ Charge(Bad(txOk))
       /\ bridgePorts' = IF txOk THEN bridgePorts \ {calls[t].port} ELSE bridgePorts
       /\ calls' = [calls EXCEPT ![t] =
            IF txOk THEN [calls[t] EXCEPT !.pc = "rp_delete"]
            ELSE Logged(calls[t], "unlink", "rp_delete")]
  /\ UNCHANGED <<nbVars, ovsPorts, ovsIfaces, links>>

\* RemovePort 509-523: delete the Port row; a failure ends RemovePort
LeaveRemovePortDelete(t) ==
  /\ At(t, "Leave", "rp_delete")
  /\ LET c == calls[t] IN
     \E txOk \in Chance(0) :
       /\ Charge(Bad(txOk))
       /\ IF txOk
          THEN /\ ovsPorts' = [ovsPorts EXCEPT ![c.port] = NoRow]
               /\ calls' = [calls EXCEPT ![t] = [c EXCEPT !.pc = "rp_iface"]]
          ELSE /\ calls' = [calls EXCEPT ![t] = Logged(c, "bridge", "l_linkdel")]
               /\ UNCHANGED ovsPorts
  /\ UNCHANGED <<nbVars, bridgePorts, ovsIfaces, links>>

\* RemovePort 525-546: the interface by name, deleted when found; a failed
\* lookup or batch is logged only
LeaveRemovePortIface(t) ==
  /\ At(t, "Leave", "rp_iface")
  /\ LET ifaces == OvsIfacesNamed(LocalVethName(calls[t].ep)) IN
     \E txOk \in Chance(0) :
       /\ ifaces = {} => txOk
       /\ Charge(Bad(txOk))
       /\ IF txOk /\ ifaces # {}
          THEN \E i \in ifaces : ovsIfaces' = [ovsIfaces EXCEPT ![i] = NoRow]
          ELSE UNCHANGED ovsIfaces
       /\ calls' = [calls EXCEPT ![t] =
            IF txOk THEN [calls[t] EXCEPT !.pc = "l_linkdel"]
            ELSE Logged(calls[t], "iface", "l_linkdel")]
  /\ UNCHANGED <<nbVars, bridgePorts, ovsPorts, links>>

\* main.go 294-299: ip link del; Leave returns nil
LeaveLinkDel(t) ==
  /\ At(t, "Leave", "l_linkdel")
  /\ LET c == Tried(calls[t], "link")
         name == LocalVethName(c.ep) IN
     \E cmdOk \in Chance(0) :
       /\ name \notin links => cmdOk
       /\ Charge(Bad(cmdOk))
       /\ IF cmdOk /\ name \in links
          THEN /\ links' = links \ {name}
               /\ calls' = [calls EXCEPT ![t] = Finish(c, "")]
          ELSE /\ calls' = [calls EXCEPT ![t] = Finish(Logged(c, "link", "done"), "")]
               /\ UNCHANGED links
  /\ UNCHANGED <<nbVars, ovsVars>>

\* ------------------------------------------------------------------- spec
Init ==
  /\ switches = [u \in SwitchIds |-> NoRow]
  /\ lsps = [p \in LspIds |-> NoRow]
  /\ bridgePorts = {}
  /\ ovsPorts = [p \in OvsIds |-> NoRow]
  /\ ovsIfaces = [p \in OvsIds |-> NoRow]
  /\ links = {}
  /\ calls = [t \in Threads |-> Idle]
  /\ faults = 0

Steps(t) ==
  \/ CreateNetworkCheck(t)
  \/ CreateNetworkCreate(t)
  \/ DeleteNetworkFind(t)
  \/ DeleteNetworkDelete(t)
  \/ CreateEndpointCheck(t)
  \/ CreateEndpointLookup(t)
  \/ CreateEndpointStore(t)
  \/ DeleteEndpointLookup(t)
  \/ DeleteEndpointDelete(t)
  \/ JoinMetadata(t)
  \/ JoinCheck(t)
  \/ JoinTransact(t)
  \/ JoinLinkAdd(t)
  \/ JoinSetMac(t)
  \/ JoinLinkUp(t)
  \/ JoinAttach(t)
  \/ JoinOffload(t)
  \/ LeaveFind(t)
  \/ LeaveDelete(t)
  \/ LeaveRemovePortFind(t)
  \/ LeaveRemovePortUnlink(t)
  \/ LeaveRemovePortDelete(t)
  \/ LeaveRemovePortIface(t)
  \/ LeaveLinkDel(t)

\* The requests of Spec: two networks that ask for the same subnet, a request
\* without subnet and one with a gateway that does not parse; one endpoint,
\* with a generated and with a given MAC.
CreateNetworkReqs ==
  {<<NetA, SubnetX, GwCidr>>, <<NetB, SubnetX, GwBare>>, <<NetB, Empty, GwBare>>,
   <<NetB, SubnetY, GwBad>>}

DeleteNetworkReqs == {NetA}

CreateEndpointReqs == {<<EpA, NetA, Empty, IpXCidr>>, <<EpA, NetA, GivenMac, IpY>>}

EndpointReqs == {<<EpA, NetA>>}

Begins(t) ==
  \/ \E r \in CreateNetworkReqs : BeginCreateNetwork(t, r[1], r[2], r[3])
  \/ \E net \in DeleteNetworkReqs : BeginDeleteNetwork(t, net)
  \/ \E r \in CreateEndpointReqs : BeginCreateEndpoint(t, r[1], r[2], r[3], r[4])
  \/ \E r \in EndpointReqs : BeginDeleteEndpoint(t, r[1], r[2])
  \/ \E r \in EndpointReqs : BeginJoin(t, r[1], r[2])
  \/ \E r \in EndpointReqs : BeginLeave(t, r[1], r[2])

\* one request at a time, any lookup, transaction or command may fail
Next == \E t \in Threads : Steps(t) \/ (t = 1 /\ Begins(t))

Spec == Init /\ [][Next]_vars

\* an environment that never fails
InitReliable ==
  /\ switches = [u \in SwitchIds |-> NoRow]
  /\ lsps = [p \in LspIds |-> NoRow]
  /\ bridgePorts = {}
  /\ ovsPorts = [p \in OvsIds |-> NoRow]
  /\ ovsIfaces = [p \in OvsIds |-> NoRow]
  /\ links = {}
  /\ calls = [t \in Threads |-> Idle]
  /\ faults = MaxFaults

\* The requests of SpecDup: two network ids with the same first twelve
\* characters, two endpoints that ask for the same IP.
DupCreateNetworkReqs == {<<NetA, SubnetX, GwCidr>>, <<NetA2, SubnetY, GwBare>>}

DupCreateEndpointReqs == {<<EpA, NetA, Empty, IpXCidr>>, <<EpB, NetA, GivenMac, IpX>>}

DupJoinReqs == {<<EpA, NetA>>, <<EpB, NetA>>}

DupLeaveReqs == {<<EpA, NetA>>}

DupSteps(t) ==
  \/ CreateNetworkCheck(t)
  \/ CreateNetworkCreate(t)
  \/ CreateEndpointCheck(t)
  \/ CreateEndpointLookup(t)
  \/ CreateEndpointStore(t)
  \/ JoinMetadata(t)
  \/ JoinCheck(t)
  \/ JoinTransact(t)
  \/ JoinLinkAdd(t)
  \/ JoinSetMac(t)
  \/ JoinLinkUp(t)
  \/ JoinAttach(t)
  \/ JoinOffload(t)
  \/ LeaveFind(t)
  \/ LeaveDelete(t)
  \/ LeaveRemovePortFind(t)
  \/ LeaveRemovePortUnlink(t)
  \/ LeaveRemovePortDelete(t)
  \/ LeaveRemovePortIface(t)
  \/ LeaveLinkDel(t)

DupBegins(t) ==
  \/ \E r \in DupCreateNetworkReqs : BeginCreateNetwork(t, r[1], r[2], r[3])
  \/ \E r \in DupCreateEndpointReqs : BeginCreateEndpoint(t, r[1], r[2], r[3], r[4])
  \/ \E r \in DupJoinReqs : BeginJoin(t, r[1], r[2])
  \/ \E r \in DupLeaveReqs : BeginLeave(t, r[1], r[2])

NextDup == \E t \in Threads : DupSteps(t) \/ (t = 1 /\ DupBegins(t))

SpecDup == InitReliable /\ [][NextDup]_vars

\* The requests of SpecConc, served by two goroutines at once: two networks
\* that ask for the same subnet, two endpoints that ask for the same IP.
ConcCreateNetworkReqs == {<<NetA, SubnetX, GwCidr>>, <<NetB, SubnetX, GwBare>>}

ConcSteps(t) ==
  \/ CreateNetworkCheck(t)
  \/ CreateNetworkCreate(t)
  \/ CreateEndpointCheck(t)
  \/ CreateEndpointLookup(t)
  \/ CreateEndpointStore(t)
  \/ JoinMetadata(t)
  \/ JoinCheck(t)
  \/ JoinTransact(t)
  \/ JoinLinkAdd(t)
  \/ JoinSetMac(t)
  \/ JoinLinkUp(t)
  \/ JoinAttach(t)
  \/ JoinOffload(t)

ConcBegins(t) ==
  \/ \E r \in ConcCreateNetworkReqs : BeginCreateNetwork(t, r[1], r[2], r[3])
  \/ \E r \in DupCreateEndpointReqs : BeginCreateEndpoint(t, r[1], r[2], r[3], r[4])
  \/ \E r \in DupJoinReqs : BeginJoin(t, r[1], r[2])

NextConc == \E t \in Threads : ConcSteps(t) \/ ConcBegins(t)

SpecConc == InitReliable /\ [][NextConc]_vars

\* The requests of SpecPrefix: two networks, and on the first of them two
\* endpoint ids with the same first twelve characters and different IPs.
PrefixCreateNetworkReqs == {<<NetA, SubnetX, GwCidr>>, <<NetB, SubnetY, GwBare>>}

PrefixCreateEndpointReqs == {<<EpA, NetA, Empty, IpXCidr>>, <<EpA2, NetA, GivenMac, IpY>>}

PrefixEndpointReqs == {<<EpA, NetA>>, <<EpA2, NetA>>}

PrefixSteps(t) ==
  \/ CreateNetworkCheck(t)
  \/ CreateNetworkCreate(t)
  \/ CreateEndpointCheck(t)
  \/ CreateEndpointLookup(t)
  \/ CreateEndpointStore(t)
  \/ DeleteEndpointLookup(t)
  \/ DeleteEndpointDelete(t)
  \/ JoinMetadata(t)
  \/ JoinCheck(t)
  \/ JoinTransact(t)
  \/ JoinLinkAdd(t)
  \/ JoinSetMac(t)
  \/ JoinLinkUp(t)
  \/ JoinAttach(t)
  \/ JoinOffload(t)
  \/ LeaveFind(t)
  \/ LeaveDelete(t)
  \/ LeaveRemovePortFind(t)
  \/ LeaveRemovePortUnlink(t)
  \/ LeaveRemovePortDelete(t)
  \/ LeaveRemovePortIface(t)
  \/ LeaveLinkDel(t)

PrefixBegins(t) ==
  \/ \E r \in PrefixCreateNetworkReqs : BeginCreateNetwork(t, r[1], r[2], r[3])
  \/ \E r \in PrefixCreateEndpointReqs : BeginCreateEndpoint(t, r[1], r[2], r[3], r[4])
  \/ \E r \in PrefixEndpointReqs : BeginDeleteEndpoint(t, r[1], r[2])
  \/ \E r \in PrefixEndpointReqs : BeginJoin(t, r[1], r[2])
  \/ \E r \in PrefixEndpointReqs : BeginLeave(t, r[1], r[2])

NextPrefix == \E t \in Threads : PrefixSteps(t) \/ (t = 1 /\ PrefixBegins(t))

SpecPrefix == InitReliable /\ [][NextPrefix]_vars

\* The requests of SpecRace, served by two goroutines at once: one network,
\* and for each goroutine an endpoint of its own, with an IP of its own.
RaceCreateNetworkReqs == {<<NetA, SubnetX, GwCidr>>}

RaceCreateEndpointReq(t) ==
  IF t = 1 THEN <<EpA, NetA, Empty, IpXCidr>> ELSE <<EpB, NetA, GivenMac, IpY>>

RaceEndpointReq(t) == IF t = 1 THEN <<EpA, NetA>> ELSE <<EpB, NetA>>

RaceSteps(t) ==
  \/ CreateNetworkCheck(t)
  \/ CreateNetworkCreate(t)
  \/ CreateEndpointCheck(t)
  \/ CreateEndpointLookup(t)
  \/ CreateEndpointStore(t)
  \/ DeleteEndpointLookup(t)
  \/ DeleteEndpointDelete(t)
  \/ JoinMetadata(t)
  \/ JoinCheck(t)
  \/ JoinTransact(t)
  \/ JoinLinkAdd(t)
  \/ JoinSetMac(t)
  \/ JoinLinkUp(t)
  \/ JoinAttach(t)
  \/ JoinOffload(t)
  \/ LeaveFind(t)
  \/ LeaveDelete(t)
  \/ LeaveRemovePortFind(t)
  \/ LeaveRemovePortUnlink(t)
  \/ LeaveRemovePortDelete(t)
  \/ LeaveRemovePortIface(t)
  \/ LeaveLinkDel(t)

RaceBegins(t) ==
  \/ \E r \in RaceCreateNetworkReqs : t = 1 /\ BeginCreateNetwork(t, r[1], r[2], r[3])
  \/ \E r \in {RaceCreateEndpointReq(t)} : BeginCreateEndpoint(t, r[1], r[2], r[3], r[4])
  \/ \E r \in {RaceEndpointReq(t)} : BeginDeleteEndpoint(t, r[1], r[2])
  \/ \E r \in {RaceEndpointReq(t)} : BeginJoin(t, r[1], r[2])
  \/ \E r \in {RaceEndpointReq(t)} : BeginLeave(t, r[1], r[2])

NextRace == \E t \in Threads : RaceSteps(t) \/ RaceBegins(t)

SpecRace == InitReliable /\ [][NextRace]_vars

\* ----------------------------------------------------------------- claims
\* the rows as the claims speak of them
Networks == {u \in SwitchIds : switches[u] # NoRow}

Ports == {p \in LspIds : lsps[p] # NoRow}

\* the IP a LogicalPort carries: the second field of its "mac ip" address
PortIP(p) == lsps[p].addresses[1][2]

\* the errors of Join's host steps after the link pair was created
HostErrs ==
  {"failed to set MAC address", "failed to bring up host veth", "failed to add veth to OVS"}

\* the attribute bags: every column of the switches but the port set
Bags == [u \in SwitchIds |-> IF switches[u] = NoRow THEN NoRow
                            ELSE [switches[u] EXCEPT !.ports = {}]]

Returns(t, op) == calls[t].op = op /\ calls[t].pc = "done"

\* C1: when a network holding subnet S exists, the subnet check of a
\* CreateNetwork asking for S ends the call with an error, changes no row, and
\* exactly one network holds S afterwards.
C1_SubnetConflict ==
  [][\A t \in Threads :
       (/\ CreateNetworkCheck(t)
        /\ \E u \in Networks : switches[u].subnet = calls[t].subnet)
       => /\ calls'[t].pc = "done"
          /\ calls'[t].err # ""
          /\ UNCHANGED nbVars
          /\ Cardinality({u \in SwitchIds : /\ switches'[u] # NoRow
                                            /\ switches'[u].subnet = calls[t].subnet}) = 1]_vars

\* C1 witness: CreateNetwork for another network id returned "subnet in use"
\* while the network holding the subnet exists.
C1_Witness ==
  /\ Returns(1, "CreateNetwork")
  /\ calls[1].err = "subnet in use"
  /\ \E u \in Networks : /\ switches[u].subnet = calls[1].subnet
                         /\ switches[u].network # calls[1].net

\* C2: when a member port of network N carries the IP stored for the endpoint,
\* the checks of Join(ep, N) end the call with an error and change nothing in
\* the database or on the host.
C2_IpConflict ==
  [][\A t \in Threads :
       (/\ JoinCheck(t)
        /\ \E u \in Networks :
             /\ switches[u].network = calls[t].net
             /\ \E p \in switches[u].ports \cap Ports : PortIP(p) = calls[t].ip)
       => /\ calls'[t].pc = "done"
          /\ calls'[t].err # ""
          /\ UNCHANGED <<nbVars, hostVars>>]_vars

\* C3: within one network no two member ports carry the same IP.
C3_IpUnique ==
  \A u \in Networks : \A p, q \in switches[u].ports \cap Ports :
    p # q => PortIP(p) # PortIP(q)

\* C4: no two networks hold the same subnet.
C4_SubnetUnique ==
  \A u, v \in Networks : u # v => switches[u].subnet # switches[v].subnet

\* C5: when Leave found the LogicalPort and the bridge port of a joined
\* endpoint and every step of it succeeded, the LogicalPort is gone, no network
\* references it, no bridge port or interface of its host-side link is left,
\* and the link pair is gone.
C5_JoinThenLeave ==
  \A t \in Threads :
    (/\ Returns(t, "Leave")
     /\ calls[t].lsp # 0 /\ calls[t].port # 0 /\ calls[t].warn = {})
    => /\ lsps[calls[t].lsp] = NoRow
       /\ LspsNamed(PortName(calls[t].ep, calls[t].net)) = {}
       /\ \A u \in Networks : calls[t].lsp \notin switches[u].ports
       /\ OvsPortsNamed(LocalVethName(calls[t].ep)) = {}
       /\ OvsIfacesNamed(LocalVethName(calls[t].ep)) = {}
       /\ calls[t].port \notin bridgePorts
       /\ ovsPorts[calls[t].port] = NoRow
       /\ LocalVethName(calls[t].ep) \notin links

\* C6: every LogicalPort is referenced by the port set of exactly one network,
\* and every reference of a port set is a LogicalPort that exists.
C6_Membership ==
  /\ \A p \in Ports : Cardinality({u \in Networks : p \in switches[u].ports}) = 1
  /\ \A u \in Networks : switches[u].ports \subseteq Ports

\* C7: when the bridge attach of Join fails, Join returns an error, the
\* database is not changed (no compensating delete), and the LogicalPort of the
\* endpoint is present and a member of the network's port set.
C7_AttachFailure ==
  [][\A t \in Threads :
       (JoinAttach(t) /\ calls'[t].pc = "done")
       => /\ calls'[t].err # ""
          /\ UNCHANGED nbVars
          /\ \E p \in LspIds :
               /\ lsps'[p] # NoRow
               /\ lsps'[p].name = PortName(calls[t].ep, calls[t].net)
               /\ \E u \in SwitchIds : /\ switches'[u] # NoRow
                                       /\ switches'[u].name = SwitchName(calls[t].net)
                                       /\ p \in switches'[u].ports]_vars

\* C7 witness: Join returned the attach error, its port is in the database and
\* in the port set of the network.
C7_Witness ==
  /\ Returns(1, "Join")
  /\ calls[1].err = "failed to add veth to OVS"
  /\ \E p \in LspsNamed(PortName(calls[1].ep, calls[1].net)) :
       \E u \in SwitchesNamed(SwitchName(calls[1].net)) : p \in switches[u].ports

C9_LeaveCompletes ==
  \A t \in Threads :
    Returns(t, "Leave")
    => calls[t].err = "" /\ calls[t].tried = <<"lsp", "bridge", "link">>

\* C9 witness: Leave returned nil after its port deletion and its bridge
\* detachment both failed.
C9_Witness ==
  /\ Returns(1, "Leave")
  /\ calls[1].err = ""
  /\ {"lsp", "bridge"} \subseteq calls[1].warn
  /\ calls[1].tried = <<"lsp", "bridge", "link">>

\* C10 as claimed: after Leave returned on a joined endpoint no LogicalPort of
\* the endpoint exists and the network holds no metadata of it.
C10_LeaveMakesAbsent ==
  \A t \in Threads :
    (Returns(t, "Leave") /\ calls[t].lsp # 0)
    => /\ LspsNamed(PortName(calls[t].ep, calls[t].net)) = {}
       /\ \A u \in SwitchesNamed(SwitchName(calls[t].net)) :
            /\ switches[u].epMac[calls[t].ep] = Empty
            /\ switches[u].epIp[calls[t].ep] = Empty

\* C10 as amended: no step of Leave changes an attribute bag (the metadata
\* stays), and when Leave returns after the transaction that deletes the port
\* it found succeeded, that port is gone.
C10_LeaveKeepsMetadata ==
  [][\A t \in Threads :
       (calls[t].op = "Leave" /\ calls[t].pc # "done" /\ calls'[t] # calls[t])
       => /\ Bags' = Bags
          /\ (calls'[t].pc = "done" /\ calls'[t].lsp # 0 /\ "lsp" \notin calls'[t].warn)
               => lsps'[calls'[t].lsp] = NoRow]_vars

\* C10 witness: Leave returned, the port it found is deleted, and the metadata
\* of the endpoint is still in the network's bag.
C10_Witness ==
  /\ Returns(1, "Leave")
  /\ calls[1].lsp # 0
  /\ lsps[calls[1].lsp] = NoRow
  /\ \E u \in SwitchesNamed(SwitchName(calls[1].net)) :
       /\ switches[u].epMac[calls[1].ep] # Empty
       /\ switches[u].epIp[calls[1].ep] # Empty

\* the networks that carry a network id, and a step of a call of an operation
NetworksOf(net) == {u \in Networks : switches[u].network = net}

StepOf(t, op) == calls[t].op = op /\ calls[t].pc # "done" /\ calls'[t] # calls[t]

\* C11: DeleteEndpoint returns success whatever happens: network absent,
\* lookup failing, mutate operation not built, transaction failing.
C11_DeleteEndpointSucceeds ==
  \A t \in Threads : Returns(t, "DeleteEndpoint") => calls[t].err = ""

\* C12: when the transaction of DeleteEndpoint(ep, N) succeeds with N present,
\* the mac and ip keys of ep are in no bag of N afterwards, whatever values
\* they held (so that a following Join finds no metadata).
C12_DeleteRemovesMetadata ==
  [][\A t \in Threads :
       (DeleteEndpointDelete(t) /\ calls'[t].warn = {})
       => \A u \in SwitchIds :
            (switches'[u] # NoRow /\ switches'[u].network = calls[t].net)
            => /\ switches'[u].epMac[calls[t].ep] = Empty
               /\ switches'[u].epIp[calls[t].ep] = Empty]_vars

\* C13: when no network of the name exists, the lookup of DeleteNetwork ends
\* the call without a transaction and without a change of the database, and
\* with success when the lookup answered.
C13_DeleteAbsentNetwork ==
  [][\A t \in Threads :
       (/\ DeleteNetworkFind(t)
        /\ \A u \in Networks : switches[u].name # SwitchName(calls[t].net))
       => /\ calls'[t].pc = "done"
          /\ calls'[t].tried = <<>>
          /\ UNCHANGED <<nbVars, hostVars>>
          /\ faults' = faults => calls'[t].err = ""]_vars

\* C13 witness: DeleteNetwork returned success without a transaction, no
\* network of the name exists, and a second network is untouched.
C13_Witness ==
  /\ Returns(1, "DeleteNetwork")
  /\ calls[1].err = ""
  /\ calls[1].tried = <<>>
  /\ \A u \in Networks : switches[u].name # SwitchName(calls[1].net)
  /\ Networks # {}

\* C14: when no network with the id holds both metadata keys of the endpoint
\* (none stored, or no network), the metadata read of Join ends the call with
\* an error and changes nothing in the database or on the host.
C14_JoinNeedsMetadata ==
  [][\A t \in Threads :
       (/\ JoinMetadata(t)
        /\ \A u \in NetworksOf(calls[t].net) :
             \/ switches[u].epMac[calls[t].ep] = Empty
             \/ switches[u].epIp[calls[t].ep] = Empty)
       => /\ calls'[t].pc = "done"
          /\ calls'[t].err # ""
          /\ UNCHANGED <<nbVars, hostVars>>]_vars

\* C14 witness: Join returned "endpoint metadata not found" on a network that
\* exists, and there is no LogicalPort and no link.
C14_Witness ==
  /\ Returns(1, "Join")
  /\ calls[1].err = "endpoint metadata not found"
  /\ NetworksOf(calls[1].net) # {}
  /\ Ports = {}
  /\ links = {}

\* C15: while no network with the id exists, every step of CreateEndpoint
\* ends the call with an error and writes nothing to the database.
C15_CreateEndpointNeedsNetwork ==
  [][\A t \in Threads :
       (StepOf(t, "CreateEndpoint") /\ NetworksOf(calls[t].net) = {})
       => /\ calls'[t].pc = "done"
          /\ calls'[t].err # ""
          /\ UNCHANGED nbVars]_vars

\* C15 witness: CreateEndpoint returned "network not found" with no failure of
\* the environment, another network exists and holds no metadata.
C15_Witness ==
  /\ Returns(1, "CreateEndpoint")
  /\ calls[1].err = "network not found"
  /\ faults = 0
  /\ NetworksOf(calls[1].net) = {}
  /\ \E u \in Networks : switches[u].epMac = NoMeta /\ switches[u].epIp = NoMeta

\* C16: when CreateEndpoint(ep, N, mac, ip) returns success, the metadata of ep
\* in N is the MAC it returns and the bare form of ip, also when metadata of ep
\* was stored before with other values.
C16_PutGetRoundTrip ==
  [][\A t \in Threads :
       (CreateEndpointStore(t) /\ calls'[t].err = "")
       => \A u \in SwitchIds :
            (switches'[u] # NoRow /\ switches'[u].network = calls[t].net)
            => /\ switches'[u].epMac[calls[t].ep] = calls'[t].resp
               /\ switches'[u].epIp[calls[t].ep] = calls[t].ip]_vars

\* C17: the LogicalPort the transaction of Join(ep, N) creates has the single
\* address "<mac> <ip>" of ep's metadata in N, the same port security, is
\* enabled and tagged with ep and N; the response of a successful Join is the
\* container-side interface name and the gateway in N's bag, a bare address.
C17_JoinResult ==
  [][\A t \in Threads :
       /\ JoinTransact(t) =>
            \A p \in LspIds :
              (lsps[p] = NoRow /\ lsps'[p] # NoRow)
              => /\ NetworksOf(calls[t].net) # {}
                 /\ \A u \in NetworksOf(calls[t].net) :
                      lsps'[p].addresses =
                        << <<switches[u].epMac[calls[t].ep], switches[u].epIp[calls[t].ep]>> >>
                 /\ lsps'[p].portSecurity = lsps'[p].addresses
                 /\ lsps'[p].enabled
                 /\ lsps'[p].endpoint = calls[t].ep
                 /\ lsps'[p].network = calls[t].net
       /\ (JoinOffload(t) /\ calls'[t].err = "") =>
            /\ NetworksOf(calls[t].net) # {}
            /\ \A u \in NetworksOf(calls[t].net) :
                 /\ calls'[t].resp = <<ContainerVethName(calls[t].ep), switches[u].gateway>>
                 /\ ~HasSlash(switches[u].gateway)]_vars

\* C17 witness: Join succeeded for the endpoint created without MAC and with a
\* CIDR-form IP on the network created with a CIDR-form gateway; its port
\* carries the generated MAC and the bare IP, the response the bare gateway.
C17_Witness ==
  /\ Returns(1, "Join")
  /\ calls[1].err = ""
  /\ calls[1].resp = <<ContainerVethName(EpA), GwBare>>
  /\ \E p \in Ports :
       /\ lsps[p].endpoint = EpA
       /\ lsps[p].addresses = << <<generateMAC(EpA), IpX>> >>
       /\ lsps[p].portSecurity = lsps[p].addresses

\* C18: when a LogicalPort of another endpoint id with the same first twelve
\* characters, on the same network and with another IP, exists, the checks of
\* Join end the call with "logical switch port already exists" and change
\* nothing in the database or on the host.
C18_PortNameConflict ==
  [][\A t \in Threads :
       (/\ JoinCheck(t)
        /\ \E p \in Ports :
             /\ lsps[p].endpoint # calls[t].ep
             /\ Prefix(lsps[p].endpoint, NamePrefixLen) = Prefix(calls[t].ep, NamePrefixLen)
             /\ lsps[p].network = calls[t].net
             /\ PortIP(p) # calls[t].ip)
       => /\ calls'[t].pc = "done"
          /\ calls'[t].err = "logical switch port already exists"
          /\ UNCHANGED <<nbVars, hostVars>>]_vars

\* C18 witness: Join of the second endpoint returned the port-name conflict
\* while the first endpoint's port is the only LogicalPort and a member of the
\* network.
C18_Witness ==
  /\ Returns(1, "Join")
  /\ calls[1].ep = EpA2
  /\ calls[1].err = "logical switch port already exists"
  /\ \E p \in Ports :
       /\ Ports = {p}
       /\ lsps[p].endpoint = EpA
       /\ \E u \in NetworksOf(calls[1].net) : p \in switches[u].ports

C20_NoProgressPastFailure ==
  [][\A t \in Threads :
       /\ (JoinTransact(t) /\ (faults' # faults \/ FreeLspIds = {}))
          => /\ calls'[t].pc = "done"
             /\ calls'[t].err # ""
             /\ UNCHANGED <<nbVars, hostVars>>
             /\ \A p \in LspIds :
                  lsps'[p] # NoRow => lsps'[p].name # PortName(calls[t].ep, calls[t].net)
       /\ (StepOf(t, "Join") /\ hostVars' # hostVars)
          => \E p \in Ports :
               /\ lsps[p].name = PortName(calls[t].ep, calls[t].net)
               /\ \E u \in Networks : p \in switches[u].ports]_vars

\* C20 witness: Join returned the error of its transaction; the network holds
\* the metadata, and there is no LogicalPort, port reference, link or bridge
\* port.
C20_Witness ==
  /\ Returns(1, "Join")
  /\ calls[1].err \in {"transaction failed", "transaction error"}
  /\ \E u \in NetworksOf(calls[1].net) : switches[u].epMac[calls[1].ep] # Empty
  /\ Ports = {}
  /\ \A u \in Networks : switches[u].ports = {}
  /\ links = {}
  /\ bridgePorts = {}

C24_DeleteNetworkSucceeds ==
  \A t \in Threads : Returns(t, "DeleteNetwork") => calls[t].err = ""

\* C26: at most one network exists per derived name.
C26_NameUnique ==
  \A u, v \in Networks : u # v => switches[u].name # switches[v].name

C21_NoLostUpdates ==
  \A t \in Threads :
    /\ (Returns(t, "CreateEndpoint") /\ calls[t].err = "")
         => \E u \in NetworksOf(calls[t].net) :
              /\ switches[u].epMac[calls[t].ep] # Empty
              /\ switches[u].epIp[calls[t].ep] # Empty
    /\ (Returns(t, "Join") /\ calls[t].err = "")
         => \E p \in Ports :
              /\ lsps[p].endpoint = calls[t].ep
              /\ \E u \in NetworksOf(calls[t].net) : p \in switches[u].ports
    /\ (Returns(t, "Leave") /\ calls[t].lsp # 0 /\ calls[t].warn = {})
         => /\ lsps[calls[t].lsp] = NoRow
            /\ \A u \in Networks : calls[t].lsp \notin switches[u].ports

\* C21 witness: the Joins of both endpoints returned success; both ports are
\* in the port set of the network and both endpoints' keys are in its bag.
C21_Witness ==
  /\ \A t \in Threads : Returns(t, "Join") /\ calls[t].err = ""
  /\ calls[1].ep # calls[2].ep
  /\ \E u \in NetworksOf(NetA) :
       /\ Cardinality(switches[u].ports \cap Ports) = 2
       /\ \A t \in Threads : /\ switches[u].epMac[calls[t].ep] # Empty
                               /\ switches[u].epIp[calls[t].ep] # Empty

C25_LeaveOnlyOwn ==
  [][\A t \in Threads :
       StepOf(t, "Leave")
       => \A p \in Ports :
            lsps[p].endpoint # calls[t].ep
            => /\ lsps'[p] = lsps[p]
               /\ \A u \in Networks : p \in switches[u].ports => p \in switches'[u].ports
               /\ \A q \in OvsPortsNamed(LocalVethName(lsps[p].endpoint)) :
                    /\ ovsPorts'[q] = ovsPorts[q]
                    /\ q \in bridgePorts => q \in bridgePorts'
               /\ LocalVethName(lsps[p].endpoint) \in links
                    => LocalVethName(lsps[p].endpoint) \in links']_vars
====
